---- MODULE Spec2Model ----
(***************************************************************************)
(* Private credit oracle: the scoring function (oracle.ts,                 *)
(* CreditOracle.calculateCreditScore), the mock activity provider          *)
(* (scanner.ts), the single-address update flow                            *)
(* (CreditOracle.updateCreditScore) and the HTTP boundary that drives it   *)
(* (index.ts).                                                             *)
(***************************************************************************)
EXTENDS Integers, Sequences, FiniteSets, TLC

VARIABLES
    activity,   \* scoring harness: the snapshot handed to calculateCreditScore
    score,      \* scoring harness: the value calculateCreditScore returned
    calcPc,     \* scoring harness: "input" before the call, "scored" after it
    prev,       \* scoring harness: the previous evaluation and the field raised
                \* since, as <<snapshot, score, field>> ("none": nothing raised)
    flow,       \* per request slot: the handler and its updateCreditScore call
    registry,   \* the registry contract: address -> [has, score]
    submitted,  \* the updateScore transactions the oracle has sent
    batch,      \* the run of batchUpdateScores: its input list and loop position
    server      \* startServer: the environment, its position, the oracle variable

vars == <<activity, score, calcPc, prev, flow, registry, submitted, batch, server>>

----------------------------------------------------------------------------
(* Bounds of the model *)

MaxAge == 7
MaxProtocols == 3
NumFlows == 2

----------------------------------------------------------------------------
(* config.ts *)

SCORING ==
    [ minScore |-> 300,
      maxScore |-> 850,
      baseScore |-> 500,
      weights |-> [ hasLendingActivity |-> 100,
                    neverLiquidated |-> 50,
                    accountAge |-> 100,
                    multiProtocol |-> 50,
                    perfectRepayment |-> 150 ],
      thresholds |-> [ accountAgeMonths |-> 6,
                       minProtocols |-> 2 ] ]

----------------------------------------------------------------------------
(* scanner.ts: WalletActivity *)

\* The values the type WalletActivity.repaymentHistory declares.
RepaymentTiers == {"none", "poor", "average", "good", "strong"}

\* Types are erased at run time: any string can sit in repaymentHistory.
\* "perfect" is the literal the scoring code compares with; "unknown" stands
\* for every other string.
RepaymentValues == RepaymentTiers \cup {"perfect", "unknown"}

Min(a, b) == IF a <= b THEN a ELSE b
Max(a, b) == IF a >= b THEN a ELSE b

----------------------------------------------------------------------------
(* oracle.ts: CreditOracle.calculateCreditScore *)

\* Math.floor(w * 0.7) and Math.floor(w * 0.4): tenths is 7 or 4.  For the
\* weights used the IEEE product is exact, so the floor is the integer one.
FloorTenths(w, tenths) == (w * tenths) \div 10

\* Variant of RepaymentBonus in which the tiers are tested by independent
\* ifs that accumulate instead of an if / else-if chain.
RepaymentBonusStacked(history) ==
    (IF history \in {"perfect"} THEN SCORING.weights.perfectRepayment ELSE 0)
    + (IF history \in {"perfect", "good"}
         THEN FloorTenths(SCORING.weights.perfectRepayment, 7) ELSE 0)
    + (IF history \in {"perfect", "good", "average"}
         THEN FloorTenths(SCORING.weights.perfectRepayment, 4) ELSE 0)

\* Lines 103-113: the if / else-if chain on activity.repaymentHistory.
RepaymentBonus(history) ==
    IF history = "perfect" THEN SCORING.weights.perfectRepayment
    ELSE IF history = "good" THEN FloorTenths(SCORING.weights.perfectRepayment, 7)
    ELSE IF history = "average" THEN FloorTenths(SCORING.weights.perfectRepayment, 4)
    ELSE 0

\* Lines 77-101: base score plus the four independent bonuses.
FactorScore(a) ==
    SCORING.baseScore
    + (IF a.hasLendingActivity THEN SCORING.weights.hasLendingActivity ELSE 0)
    + (IF a.neverLiquidated THEN SCORING.weights.neverLiquidated ELSE 0)
    + (IF a.accountAgeMonths >= SCORING.thresholds.accountAgeMonths
         THEN SCORING.weights.accountAge ELSE 0)
    + (IF a.protocolCount >= SCORING.thresholds.minProtocols
         THEN SCORING.weights.multiProtocol ELSE 0)

\* Variant of Clamp without the Math.min line.
ClampNoMax(s) == Max(s, SCORING.minScore)

\* Lines 115-117: Math.min with maxScore, then Math.max with minScore.
Clamp(s) == Max(Min(s, SCORING.maxScore), SCORING.minScore)

\* The score before lines 115-117.
RawScore(a) == FactorScore(a) + RepaymentBonus(a.repaymentHistory)

\* Variant of calculateCreditScore that keeps a running total in the oracle
\* instance: what earlier evaluations added leaks into the next one.
calculateCreditScoreCarry(a) == Clamp(RawScore(a) + 10 * Cardinality(submitted))

calculateCreditScore(a) == Clamp(RawScore(a))

----------------------------------------------------------------------------
(* Addresses *)

\* An address string is modelled by the two things the code reads of it:
\* whether ethers.isAddress accepts it, and the character code of its last
\* character (0: the empty string, which has none).
Address(ok, c) == [wellFormed |-> ok, lastChar |-> c]

EmptyAddress == Address(FALSE, 0)

\* "...0", "...1", "...2" and "...C": well-formed addresses whose last
\* characters have the codes 48, 49, 50 and 67.
ValidAddresses == { Address(TRUE, c) : c \in {48, 49, 50, 67} }

\* "not-an-address": a non-empty string that is no address (last code 115).
InvalidAddresses == { Address(FALSE, 115) }

Addresses == ValidAddresses \cup InvalidAddresses

\* ethers.isAddress(userAddress)
isAddress(a) == a.wellFormed

\* String.prototype.toLowerCase on one character code.
toLowerCase(c) == IF c \in 65..90 THEN c + 32 ELSE c

----------------------------------------------------------------------------
(* scanner.ts *)

WalletActivity(a, lending, notLiquidated, age, protocols, history, borrowed, repaid) ==
    [ address |-> a,
      hasLendingActivity |-> lending,
      neverLiquidated |-> notLiquidated,
      accountAgeMonths |-> age,
      protocolCount |-> protocols,
      repaymentHistory |-> history,
      totalBorrowedUSD |-> borrowed,
      totalRepaidUSD |-> repaid ]

\* Lines 34-37: the profile is the code of the lower-cased last character
\* modulo 4.
profileType(a) == toLowerCase(a.lastChar) % 4

\* Lines 39-88: the switch on profileType.
generateMockData(a) ==
    CASE profileType(a) = 0 ->
           WalletActivity(a, TRUE, TRUE, 12, 3, "strong", 50000, 50000)
      [] profileType(a) = 1 ->
           WalletActivity(a, TRUE, TRUE, 8, 2, "good", 25000, 25000)
      [] profileType(a) = 2 ->
           WalletActivity(a, TRUE, TRUE, 4, 1, "average", 10000, 9500)
      [] OTHER ->
           WalletActivity(a, FALSE, TRUE, 1, 0, "none", 0, 0)

\* Lines 15-30: scanWalletActivity returns what generateMockData built.
scanWalletActivity(a) == generateMockData(a)

\* The value of a flow's activity before the scan has run.
NoActivity == WalletActivity(EmptyAddress, FALSE, FALSE, 0, 0, "unset", 0, 0)

----------------------------------------------------------------------------
(* The update flows: state of one request slot *)

Flows == 1..NumFlows

NoResult == [score |-> 0, txHash |-> 0]

NoResponse ==
    [status |-> 0, success |-> FALSE, score |-> 0, txHash |-> 0, error |-> "", hasScore |-> FALSE]

IdleFlow ==
    [ kind |-> "none",          \* the handler: "score", "trigger" or "exists"; "batch": a batch item
      url |-> "",               \* "/api/score/batch" when that URL was requested
      count |-> 0,              \* length of the addresses array of the request body
      addr |-> EmptyAddress,
      pc |-> "Idle",
      exists |-> FALSE,         \* what the handler's hasScore pre-check returned
      queryFailed |-> FALSE,    \* GET .../exists: the registry query of hasScore threw
      steps |-> <<>>,           \* statements of updateCreditScore executed by this call
      calls |-> <<>>,           \* registry operations invoked while handling the request
      activity |-> NoActivity,
      score |-> 0,
      tx |-> 0,
      result |-> NoResult,
      error |-> "",
      response |-> NoResponse ]

NoRegistryEntry == [has |-> FALSE, score |-> 0]

\* No batch is running.
NoBatch ==
    [ addresses |-> <<>>,       \* the list handed to batchUpdateScores
      pc |-> "None",            \* "Loop", "Update", "Delay", "Complete"
      idx |-> 0,                \* position of the item being processed
      started |-> <<>>,         \* per update started: its position and the time then
      caught |-> <<>>,          \* positions whose error the catch block logged
      clock |-> 0 ]             \* milliseconds spent in the inter-item timer so far

\* process.env as config.ts reads it: "" for a variable that is not set.
Env(key, rpc, reg) ==
    [ORACLE_PRIVATE_KEY |-> key, RPC_URL |-> rpc, CREDIT_REGISTRY_ADDRESS |-> reg]

\* No error was thrown during startup.
NoError == [message |-> "", keys |-> <<>>]

\* The process before startServer runs, in environment env.
ServerStart(env) ==
    [ env |-> env,
      pc |-> "start",           \* "validated", "verifying", "balance", "listening", "exited"
      oracle |-> FALSE,         \* the module variable oracle is set (index.ts 16, 190)
      authorizedOracle |-> <<>>, \* what creditRegistry.oracle() answered, once asked
      isAuthorized |-> FALSE,
      balance |-> <<>>,          \* what provider.getBalance answered, once asked
      warnings |-> {},
      error |-> NoError ]       \* what the catch block of startServer logged

\* The last character of the wallet's address as ethers prints it: "C".
WalletAddressChar == 67

\* The process once startServer has reached app.listen with everything set:
\* the registry names this wallet and the wallet holds 1 ETH.
ServerListening ==
    [ ServerStart(Env("valid", "https://rpc.example", "0xRegistry"))
        EXCEPT !.pc = "listening", !.oracle = TRUE,
               !.authorizedOracle = <<WalletAddressChar>>, !.isAuthorized = TRUE,
               !.balance = <<1000>> ]

CoordinatorInit ==
    /\ flow = [r \in Flows |-> IdleFlow]
    /\ registry = [a \in ValidAddresses |-> NoRegistryEntry]
    /\ submitted = {}
    /\ batch = NoBatch
    /\ server = ServerListening

----------------------------------------------------------------------------
(* Scoring harness: calculateCreditScore applied to arbitrary snapshots *)

\* Every snapshot over the bounded field ranges; the three fields the score
\* does not read are fixed.
Snapshots ==
    { WalletActivity(Address(TRUE, 48), l, n, age, p, h, 0, 0) :
        l \in BOOLEAN, n \in BOOLEAN, age \in 0..MaxAge,
        p \in 0..MaxProtocols, h \in RepaymentValues }

\* none <= poor <= average <= good <= strong
TierRank(h) ==
    CASE h = "none" -> 0
      [] h = "poor" -> 1
      [] h = "average" -> 2
      [] h = "good" -> 3
      [] h = "strong" -> 4
      [] OTHER -> 0 - 1

ScoreInit ==
    /\ activity \in Snapshots
    /\ score = 0
    /\ calcPc = "input"
    /\ prev = <<activity, 0, "none">>
    /\ CoordinatorInit

\* One call of calculateCreditScore on the current snapshot.
Calculate ==
    /\ calcPc = "input"
    /\ score' = calculateCreditScore(activity)
    /\ calcPc' = "scored"
    /\ UNCHANGED <<activity, prev, flow, registry, submitted, batch, server>>

\* The next input: the snapshot just scored with exactly one positive factor
\* raised (field f set to the higher value v); prev keeps the evaluation the
\* new one is compared with.
Raise(f, v) ==
    /\ calcPc = "scored"
    /\ prev' = <<activity, score, f>>
    /\ activity' = [activity EXCEPT ![f] = v]
    /\ score' = 0
    /\ calcPc' = "input"
    /\ UNCHANGED <<flow, registry, submitted, batch, server>>

RaiseLending == ~activity.hasLendingActivity /\ Raise("hasLendingActivity", TRUE)

RaiseNeverLiquidated == ~activity.neverLiquidated /\ Raise("neverLiquidated", TRUE)

RaiseAge ==
    \E v \in 0..MaxAge : v > activity.accountAgeMonths /\ Raise("accountAgeMonths", v)

RaiseProtocols ==
    \E v \in 0..MaxProtocols : v > activity.protocolCount /\ Raise("protocolCount", v)

RaiseTier ==
    \E h \in RepaymentTiers :
        /\ activity.repaymentHistory \in RepaymentTiers
        /\ TierRank(h) > TierRank(activity.repaymentHistory)
        /\ Raise("repaymentHistory", h)

ScoreNext ==
    \/ Calculate
    \/ RaiseLending
    \/ RaiseNeverLiquidated
    \/ RaiseAge
    \/ RaiseProtocols
    \/ RaiseTier

SpecScore == ScoreInit /\ [][ScoreNext]_vars

----------------------------------------------------------------------------
(* index.ts and oracle.ts: the single-address update *)

harness == <<activity, score, calcPc, prev>>

Init ==
    /\ activity = NoActivity
    /\ score = 0
    /\ calcPc = "input"
    /\ prev = <<NoActivity, 0, "none">>
    /\ CoordinatorInit

\* Each flow handles one request; requests arrive once app.listen has run.
CanReceive(r) == flow[r].pc = "Idle" /\ server.pc = "listening"

\* index.ts 50-60: POST /api/score/:address.  The handler reads the address
\* and calls oracle.hasScore(address), which calls creditRegistry.hasScore
\* (oracle.ts 125) with the address as received.
ScoreRoute(r, a) ==
    /\ CanReceive(r)
    /\ flow' = [flow EXCEPT ![r] =
                  [IdleFlow EXCEPT !.kind = "score", !.addr = a,
                                   !.pc = "HasScore", !.calls = <<"hasScore">>]]
    /\ UNCHANGED <<harness, registry, submitted, batch, server>>

\* The registry's answer to hasScore: the address has a score in the
\* contract; a string that is no address has none.
RegistryHasScore(a) == a \in DOMAIN registry /\ registry[a].has

\* oracle.ts 123-130: hasScore returns the registry's answer (ok), or false
\* from its catch block when the query throws (~ok).
hasScore(a, ok) == IF ok THEN RegistryHasScore(a) ELSE FALSE

\* Variant of HasScoreReturn that answers at once, without an update, when
\* the address already has a score.
HasScoreReturnBlocking(r, ok) ==
    /\ flow[r].pc = "HasScore"
    /\ flow[r].kind = "score"
    /\ flow' = [flow EXCEPT
                  ![r].exists = ok /\ RegistryHasScore(flow[r].addr),
                  ![r].pc = IF ok /\ RegistryHasScore(flow[r].addr)
                              THEN "Responded" ELSE "Validating",
                  ![r].response = IF ok /\ RegistryHasScore(flow[r].addr)
                                    THEN [NoResponse EXCEPT !.status = 409,
                                                            !.error = "Score already exists"]
                                    ELSE @]
    /\ UNCHANGED <<harness, registry, submitted, batch, server>>

\* oracle.ts 123-130 and index.ts 60-65: the query returns (ok) or fails
\* (~ok: hasScore catches the error and returns false); either way the
\* handler goes on to call updateCreditScore.
HasScoreReturn(r, ok) ==
    /\ flow[r].pc = "HasScore"
    /\ flow[r].kind = "score"
    /\ flow' = [flow EXCEPT ![r].exists = hasScore(flow[r].addr, ok),
                            ![r].pc = "Validating"]
    /\ UNCHANGED <<harness, registry, submitted, batch, server>>

\* index.ts 146-158: POST /api/trigger.  A missing or empty address is
\* answered 400 at once; otherwise updateCreditScore is called directly.
TriggerRoute(r, a) ==
    /\ CanReceive(r)
    /\ flow' = [flow EXCEPT ![r] =
                  IF a = EmptyAddress
                    THEN [IdleFlow EXCEPT !.kind = "trigger", !.addr = a, !.pc = "Responded",
                                          !.response = [NoResponse EXCEPT !.status = 400,
                                                          !.error = "Address required in body"]]
                    ELSE [IdleFlow EXCEPT !.kind = "trigger", !.addr = a, !.pc = "Validating"]]
    /\ UNCHANGED <<harness, registry, submitted, batch, server>>

\* Variant of Validate that lets every address through.
ValidateNoCheck(r) ==
    /\ flow[r].pc = "Validating"
    /\ flow' = [flow EXCEPT ![r].steps = Append(@, "validate"), ![r].pc = "Fetching"]
    /\ UNCHANGED <<harness, registry, submitted, batch, server>>

\* oracle.ts 44-46 (and 68-71 for the throw).
Validate(r) ==
    /\ flow[r].pc = "Validating"
    /\ flow' = [flow EXCEPT
                  ![r].steps = Append(@, "validate"),
                  ![r].pc = IF isAddress(flow[r].addr) THEN "Fetching" ELSE "Failed",
                  ![r].error = IF isAddress(flow[r].addr) THEN @ ELSE "Invalid Ethereum address"]
    /\ UNCHANGED <<harness, registry, submitted, batch, server>>

\* oracle.ts 48: the scan of the address.
Fetch(r) ==
    /\ flow[r].pc = "Fetching"
    /\ flow' = [flow EXCEPT ![r].steps = Append(@, "fetch"),
                            ![r].activity = scanWalletActivity(flow[r].addr),
                            ![r].pc = "Scoring"]
    /\ UNCHANGED <<harness, registry, submitted, batch, server>>

\* oracle.ts 50: the snapshot is scored.
Score(r) ==
    /\ flow[r].pc = "Scoring"
    /\ flow' = [flow EXCEPT ![r].steps = Append(@, "score"),
                            ![r].score = calculateCreditScore(flow[r].activity),
                            ![r].pc = "Submitting"]
    /\ UNCHANGED <<harness, registry, submitted, batch, server>>

\* The transaction updateScore(user, plaintextScore) as the oracle sends it.
\* Its hash is the identity of the flow that sent it: a flow sends at most one.
Transaction(r, a, s) == [hash |-> r, user |-> a, plaintextScore |-> s, mined |-> FALSE]

\* The transaction with hash h among those sent.
Tx(h) == CHOOSE t \in submitted : t.hash = h

\* Variant of Submit that holds the call back while a transaction sent by
\* another flow is still unconfirmed (a lock around the submission).
SubmitSerialized(r, ok) ==
    /\ flow[r].pc = "Submitting"
    /\ \A q \in Flows : flow[q].pc # "Confirming"
    /\ ok
    /\ submitted' = submitted \cup {Transaction(r, flow[r].addr, flow[r].score)}
    /\ flow' = [flow EXCEPT ![r].steps = Append(@, "submit"),
                            ![r].calls = Append(@, "updateScore"),
                            ![r].tx = r,
                            ![r].pc = "Confirming"]
    /\ UNCHANGED <<harness, registry, batch, server>>

\* oracle.ts 54: creditRegistry.updateScore(userAddress, score).  The call
\* returns the pending transaction (ok) or throws (~ok).
Submit(r, ok) ==
    /\ flow[r].pc = "Submitting"
    /\ IF ok
         THEN /\ submitted' = submitted \cup {Transaction(r, flow[r].addr, flow[r].score)}
              /\ flow' = [flow EXCEPT ![r].steps = Append(@, "submit"),
                                      ![r].calls = Append(@, "updateScore"),
                                      ![r].tx = r,
                                      ![r].pc = "Confirming"]
         ELSE /\ submitted' = submitted
              /\ flow' = [flow EXCEPT ![r].steps = Append(@, "submit"),
                                      ![r].calls = Append(@, "updateScore"),
                                      ![r].error = "submission failed",
                                      ![r].pc = "Failed"]
    /\ UNCHANGED <<harness, registry, batch, server>>

\* Variant of Confirm that returns the result without waiting for the
\* transaction to be mined.
ConfirmNoWait(r, ok) ==
    /\ flow[r].pc = "Confirming"
    /\ ok
    /\ flow' = [flow EXCEPT ![r].result = [score |-> flow[r].score, txHash |-> flow[r].tx],
                            ![r].pc = "Done"]
    /\ UNCHANGED <<harness, registry, submitted, batch, server>>

\* Variant of Confirm that sends the transaction again when the wait fails.
ConfirmRetry(r, ok) ==
    /\ flow[r].pc = "Confirming"
    /\ ~ok
    /\ flow' = [flow EXCEPT ![r].steps = Append(@, "confirm"),
                            ![r].calls = Append(@, "wait"),
                            ![r].pc = "Submitting"]
    /\ UNCHANGED <<harness, registry, submitted, batch, server>>

\* oracle.ts 59-66: tx.wait().  The transaction is mined (ok): the registry
\* holds the score and {score, txHash: receipt.hash} is returned; or the
\* wait throws (~ok).
Confirm(r, ok) ==
    /\ flow[r].pc = "Confirming"
    /\ IF ok
         THEN /\ submitted' = (submitted \ {Tx(flow[r].tx)})
                                \cup {[Tx(flow[r].tx) EXCEPT !.mined = TRUE]}
              /\ registry' = [registry EXCEPT ![Tx(flow[r].tx).user] =
                                [has |-> TRUE, score |-> Tx(flow[r].tx).plaintextScore]]
              /\ flow' = [flow EXCEPT ![r].steps = Append(@, "confirm"),
                                      ![r].calls = Append(@, "wait"),
                                      ![r].result = [score |-> flow[r].score,
                                                     txHash |-> Tx(flow[r].tx).hash],
                                      ![r].pc = "Done"]
         ELSE /\ UNCHANGED <<submitted, registry>>
              /\ flow' = [flow EXCEPT ![r].steps = Append(@, "confirm"),
                                      ![r].calls = Append(@, "wait"),
                                      ![r].error = "transaction failed",
                                      ![r].pc = "Failed"]
    /\ UNCHANGED <<harness, batch, server>>

\* index.ts 67-83 and 160-169: the handler answers 200 with the result, or
\* its catch block answers 500 with the error's message.
Respond(r) ==
    /\ flow[r].pc \in {"Done", "Failed"}
    /\ flow' = [flow EXCEPT
                  ![r].response =
                      IF flow[r].pc = "Done"
                        THEN [NoResponse EXCEPT !.status = 200, !.success = TRUE,
                                                !.score = flow[r].result.score,
                                                !.txHash = flow[r].result.txHash]
                        ELSE [NoResponse EXCEPT !.status = 500, !.error = flow[r].error],
                  ![r].pc = "Responded"]
    /\ UNCHANGED <<harness, registry, submitted, batch, server>>

----------------------------------------------------------------------------
(* index.ts: the routes, and the requests that are not plain updates *)

\* The routes in the order index.ts registers them (lines 19, 29, 50, 87,
\* 109, 146); ":address" is a path parameter.
Routes ==
    << [method |-> "GET", path |-> <<"health">>, handler |-> "health"],
       [method |-> "GET", path |-> <<"api", "oracle", "status">>, handler |-> "status"],
       [method |-> "POST", path |-> <<"api", "score", ":address">>, handler |-> "score"],
       [method |-> "GET", path |-> <<"api", "score", ":address", "exists">>,
        handler |-> "exists"],
       [method |-> "POST", path |-> <<"api", "score", "batch">>, handler |-> "batch"],
       [method |-> "POST", path |-> <<"api", "trigger">>, handler |-> "trigger"] >>

\* Express matches a route when the method is the same and every segment is
\* equal or is a parameter, which takes any segment.
Matches(route, method, path) ==
    /\ route.method = method
    /\ Len(route.path) = Len(path)
    /\ \A i \in 1..Len(path) : route.path[i] = ":address" \/ route.path[i] = path[i]

\* The handler that gets the request: the first matching route in
\* registration order (no handler calls next()); the 404 handler (line 173)
\* when none matches.
Dispatch(method, path) ==
    LET hits == { i \in DOMAIN Routes : Matches(Routes[i], method, path) }
    IN  IF hits = {} THEN "notFound"
        ELSE Routes[CHOOSE i \in hits : \A j \in hits : i <= j].handler

\* The path segment "batch" read as an address: no address, last code 104.
BatchWord == Address(FALSE, 104)

\* index.ts 121: the largest batch the batch handler accepts.
maxBatch == 10

\* Request bodies for POST /api/score/batch: addresses is no array (length
\* recorded as -1), or an array of 0, 1, maxBatch or maxBatch + 1 addresses.
BatchBody(n) == [isArray |-> n >= 0, addresses |-> [i \in 1..n |-> Address(TRUE, 48)]]

BatchBodies == { BatchBody(n) : n \in {0 - 1, 0, 1, maxBatch, maxBatch + 1} }

\* index.ts 109-143: the batch handler.  It rejects a body whose addresses
\* is no array, is empty or is longer than maxBatch with 400; otherwise it
\* starts batchUpdateScores without awaiting it and answers 200.
BatchHandler(r, body) ==
    IF ~body.isArray \/ Len(body.addresses) = 0
      THEN /\ flow' = [flow EXCEPT ![r] =
                         [IdleFlow EXCEPT !.kind = "batch", !.url = "/api/score/batch",
                            !.count = Len(body.addresses), !.pc = "Responded",
                            !.response = [NoResponse EXCEPT !.status = 400,
                                            !.error = "Invalid addresses array"]]]
           /\ batch' = batch
      ELSE IF Len(body.addresses) > maxBatch
      THEN /\ flow' = [flow EXCEPT ![r] =
                         [IdleFlow EXCEPT !.kind = "batch", !.url = "/api/score/batch",
                            !.count = Len(body.addresses), !.pc = "Responded",
                            !.response = [NoResponse EXCEPT !.status = 400,
                                            !.error = "Maximum 10 addresses per batch"]]]
           /\ batch' = batch
      ELSE /\ flow' = [flow EXCEPT ![r] =
                         [IdleFlow EXCEPT !.kind = "batch", !.url = "/api/score/batch",
                            !.count = Len(body.addresses), !.pc = "Responded",
                            !.response = [NoResponse EXCEPT !.status = 200,
                                            !.success = TRUE]]]
           /\ batch' = [NoBatch EXCEPT !.addresses = body.addresses, !.pc = "Loop"]

\* index.ts 50-60 entered with the path parameter "batch": the score
\* handler does not read the body; it calls oracle.hasScore("batch").
ScoreHandlerOnBatch(r, body) ==
    /\ flow' = [flow EXCEPT ![r] =
                  [IdleFlow EXCEPT !.kind = "score", !.url = "/api/score/batch",
                                   !.count = Len(body.addresses), !.addr = BatchWord,
                                   !.pc = "HasScore", !.calls = <<"hasScore">>]]
    /\ batch' = batch

\* A request POST /api/score/batch arrives and goes to the handler the
\* router picks for it.
PostScoreBatch(r, body) ==
    /\ CanReceive(r)
    /\ IF Dispatch("POST", <<"api", "score", "batch">>) = "batch"
         THEN BatchHandler(r, body)
         ELSE ScoreHandlerOnBatch(r, body)
    /\ UNCHANGED <<harness, registry, submitted, server>>

\* index.ts 87-94: GET /api/score/:address/exists calls oracle.hasScore.
ExistsRoute(r, a) ==
    /\ CanReceive(r)
    /\ flow' = [flow EXCEPT ![r] =
                  [IdleFlow EXCEPT !.kind = "exists", !.addr = a,
                                   !.pc = "HasScore", !.calls = <<"hasScore">>]]
    /\ UNCHANGED <<harness, registry, submitted, batch, server>>

\* oracle.ts 25-29: the registry contract has an address to send calls to;
\* without one every call on it throws.
RegistryConfigured == server.env.CREDIT_REGISTRY_ADDRESS # ""

\* Variant of ExistsReturn in which hasScore has no catch block: the error
\* of the query reaches the handler, whose catch block answers 500.
ExistsReturnPropagate(r, ok) ==
    /\ flow[r].pc = "HasScore"
    /\ flow[r].kind = "exists"
    /\ ok => RegistryConfigured
    /\ flow' = [flow EXCEPT
                  ![r].exists = ok /\ RegistryHasScore(flow[r].addr),
                  ![r].queryFailed = ~ok,
                  ![r].error = IF ok THEN @ ELSE "query failed",
                  ![r].response = IF ok
                                    THEN [NoResponse EXCEPT !.status = 200,
                                            !.hasScore = RegistryHasScore(flow[r].addr)]
                                    ELSE [NoResponse EXCEPT !.status = 500,
                                            !.error = "query failed"],
                  ![r].pc = "Responded"]
    /\ UNCHANGED <<harness, registry, submitted, batch, server>>

\* oracle.ts 123-130 and index.ts 94-100: hasScore returns, and the handler
\* answers 200 with {address, hasScore: exists}.
ExistsReturn(r, ok) ==
    /\ flow[r].pc = "HasScore"
    /\ flow[r].kind = "exists"
    /\ ok => RegistryConfigured
    /\ flow' = [flow EXCEPT
                  ![r].exists = hasScore(flow[r].addr, ok),
                  ![r].queryFailed = ~ok,
                  ![r].response = [NoResponse EXCEPT !.status = 200,
                                     !.hasScore = hasScore(flow[r].addr, ok)],
                  ![r].pc = "Responded"]
    /\ UNCHANGED <<harness, registry, submitted, batch, server>>

\* The contract's state when the process starts: scores written by earlier
\* runs of the oracle are still there.
RegistryStates ==
    { [ a \in ValidAddresses |->
          IF a \in scored
            THEN [has |-> TRUE, score |-> calculateCreditScore(scanWalletActivity(a))]
            ELSE NoRegistryEntry ] : scored \in SUBSET ValidAddresses }

BoundaryInit ==
    /\ activity = NoActivity
    /\ score = 0
    /\ calcPc = "input"
    /\ prev = <<NoActivity, 0, "none">>
    /\ flow = [r \in Flows |-> IdleFlow]
    /\ registry \in RegistryStates
    /\ submitted = {}
    /\ batch = NoBatch
    /\ server = ServerListening

BoundaryNext ==
    \/ \E r \in Flows, a \in Addresses : ExistsRoute(r, a)
    \/ \E r \in Flows, ok \in BOOLEAN : ExistsReturn(r, ok)
    \/ \E r \in Flows, body \in BatchBodies : PostScoreBatch(r, body)
    \/ \E r \in Flows, ok \in BOOLEAN : HasScoreReturn(r, ok)
    \/ \E r \in Flows : Validate(r)
    \/ \E r \in Flows : Respond(r)

SpecBoundary == BoundaryInit /\ [][BoundaryNext]_vars

----------------------------------------------------------------------------
(* oracle.ts 160-178: batchUpdateScores *)

\* oracle.ts 170: the timer between two addresses, in milliseconds.
delayMs == 2000

\* The address lists batchUpdateScores is called with.  The update of the
\* item at position i is followed in flow i.
BatchInputs == UNION { [1..n -> Addresses] : n \in 0..NumFlows }

\* Variant of BatchStartItem that does not await the update: the loop goes
\* on to the next address while the update it started is still running.
BatchStartItemNoAwait ==
    /\ batch.pc = "Loop"
    /\ batch.idx < Len(batch.addresses)
    /\ batch' = [batch EXCEPT
                   !.idx = @ + 1,
                   !.started = Append(@, [pos |-> batch.idx + 1,
                                          addr |-> batch.addresses[batch.idx + 1],
                                          at |-> batch.clock])]
    /\ flow' = [flow EXCEPT ![batch.idx + 1] =
                  [IdleFlow EXCEPT !.kind = "batch",
                                   !.addr = batch.addresses[batch.idx + 1],
                                   !.pc = "Validating"]]
    /\ UNCHANGED <<harness, registry, submitted, server>>

\* oracle.ts 166-168: the loop takes the next address and calls
\* oracle.updateCreditScore(address), which it awaits.
BatchStartItem ==
    /\ batch.pc = "Loop"
    /\ batch.idx < Len(batch.addresses)
    /\ batch' = [batch EXCEPT
                   !.idx = @ + 1,
                   !.started = Append(@, [pos |-> batch.idx + 1,
                                          addr |-> batch.addresses[batch.idx + 1],
                                          at |-> batch.clock]),
                   !.pc = "Update"]
    /\ flow' = [flow EXCEPT ![batch.idx + 1] =
                  [IdleFlow EXCEPT !.kind = "batch",
                                   !.addr = batch.addresses[batch.idx + 1],
                                   !.pc = "Validating"]]
    /\ UNCHANGED <<harness, registry, submitted, server>>

\* oracle.ts 168-170: the awaited update returned its result; the loop
\* sets the timer.
BatchAfterUpdate ==
    /\ batch.pc = "Update"
    /\ flow[batch.idx].pc = "Done"
    /\ batch' = [batch EXCEPT !.pc = "Delay"]
    /\ UNCHANGED <<harness, flow, registry, submitted, server>>

\* oracle.ts 170: the timer fires after delayMs and the loop goes on.
BatchDelayElapsed ==
    /\ batch.pc = "Delay"
    /\ batch' = [batch EXCEPT !.clock = @ + delayMs, !.pc = "Loop"]
    /\ UNCHANGED <<harness, flow, registry, submitted, server>>

\* Variant of BatchCatch that rethrows: the first failed item rejects the
\* promise of batchUpdateScores.
BatchCatchAbort ==
    /\ batch.pc = "Update"
    /\ flow[batch.idx].pc = "Failed"
    /\ batch' = [batch EXCEPT !.caught = Append(@, batch.idx), !.pc = "Failed"]
    /\ UNCHANGED <<harness, flow, registry, submitted, server>>

\* oracle.ts 172-174: the awaited update threw; the catch block logs the
\* error and the loop goes on, the timer of line 170 being skipped.
BatchCatch ==
    /\ batch.pc = "Update"
    /\ flow[batch.idx].pc = "Failed"
    /\ batch' = [batch EXCEPT !.caught = Append(@, batch.idx), !.pc = "Loop"]
    /\ UNCHANGED <<harness, flow, registry, submitted, server>>

\* Variant of BatchComplete that leaves the loop whenever it is between two
\* items, whether or not addresses remain.
BatchCompleteEarly ==
    /\ batch.pc = "Loop"
    /\ batch' = [batch EXCEPT !.pc = "Complete"]
    /\ UNCHANGED <<harness, flow, registry, submitted, server>>

\* oracle.ts 177: the loop is over, the promise resolves.
BatchComplete ==
    /\ batch.pc = "Loop"
    /\ batch.idx = Len(batch.addresses)
    /\ batch' = [batch EXCEPT !.pc = "Complete"]
    /\ UNCHANGED <<harness, flow, registry, submitted, server>>

BatchInit ==
    /\ activity = NoActivity
    /\ score = 0
    /\ calcPc = "input"
    /\ prev = <<NoActivity, 0, "none">>
    /\ flow = [r \in Flows |-> IdleFlow]
    /\ registry = [a \in ValidAddresses |-> NoRegistryEntry]
    /\ submitted = {}
    /\ \E addresses \in BatchInputs :
          batch = [NoBatch EXCEPT !.addresses = addresses, !.pc = "Loop"]
    /\ server = ServerListening

BatchNext ==
    \/ BatchStartItem
    \/ BatchAfterUpdate
    \/ BatchDelayElapsed
    \/ BatchCatch
    \/ BatchComplete
    \/ \E r \in Flows : Validate(r)
    \/ \E r \in Flows : Fetch(r)
    \/ \E r \in Flows : Score(r)
    \/ \E r \in Flows, ok \in BOOLEAN : Submit(r, ok)
    \/ \E r \in Flows, ok \in BOOLEAN : Confirm(r, ok)

SpecBatch == BatchInit /\ [][BatchNext]_vars

\* The batch when every pending step is eventually taken: the event loop
\* runs each continuation that is ready, the timer fires, and every network
\* call and confirmation wait returns or throws.
SpecBatchLive == BatchInit /\ [][BatchNext]_vars /\ WF_vars(BatchNext)

----------------------------------------------------------------------------
(* config.ts and index.ts 182-225: startup *)

\* config.ts 4-9: NETWORK.rpcUrl falls back to the public endpoint.
NETWORK(env) ==
    [ rpcUrl |-> IF env.RPC_URL = "" THEN "https://rpc.sepolia.org" ELSE env.RPC_URL ]

\* config.ts 11-14
CONTRACTS(env) == [ creditRegistry |-> env.CREDIT_REGISTRY_ADDRESS ]

\* config.ts 16-20
ORACLE(env) == [ privateKey |-> env.ORACLE_PRIVATE_KEY ]

\* config.ts 48-53: the required items whose value is empty.
MissingKeys(env) ==
    LET required == << [key |-> "ORACLE_PRIVATE_KEY", value |-> ORACLE(env).privateKey],
                       [key |-> "RPC_URL", value |-> NETWORK(env).rpcUrl] >>
        missing == SelectSeq(required, LAMBDA item : item.value = "")
    IN  [i \in 1..Len(missing) |-> missing[i].key]

\* The environments the process is started in: the key is not set, is a
\* private key, or is a string that is no private key; the other two
\* variables are set or not.
Environments ==
    { Env(key, rpc, reg) : key \in {"", "valid", "malformed"},
                           rpc \in {"", "https://rpc.example"},
                           reg \in {"", "0xRegistry"} }

\* Variant of StartValidateConfig that requires nothing.
StartValidateConfigLax ==
    /\ server.pc = "start"
    /\ server' = [server EXCEPT !.pc = "validated"]
    /\ UNCHANGED <<harness, flow, registry, submitted, batch>>

\* index.ts 187 and config.ts 47-71: validateConfig; its error is caught at
\* index.ts 221-224, which logs it and exits.
StartValidateConfig ==
    /\ server.pc = "start"
    /\ server' = IF Len(MissingKeys(server.env)) > 0
                   THEN [server EXCEPT
                           !.error = [message |-> "Missing required environment variables",
                                      keys |-> MissingKeys(server.env)],
                           !.pc = "exited"]
                   ELSE [server EXCEPT !.pc = "validated"]
    /\ UNCHANGED <<harness, flow, registry, submitted, batch>>

\* index.ts 190 and oracle.ts 19-34: new CreditOracle().  ethers.Wallet
\* throws on a string that is no private key; the contract object is built
\* whatever its address string.
StartConstruct ==
    /\ server.pc = "validated"
    /\ server' = IF ORACLE(server.env).privateKey # "valid"
                   THEN [server EXCEPT
                           !.error = [message |-> "invalid private key", keys |-> <<>>],
                           !.pc = "exited"]
                   ELSE [server EXCEPT !.oracle = TRUE, !.pc = "verifying"]
    /\ UNCHANGED <<harness, flow, registry, submitted, batch>>

\* What creditRegistry.oracle() answers: the query throws (0), or returns
\* an address ending in "C", in "c" or in "0".
OracleAnswers == {0, 67, 99, 48}

\* Variant of StartVerify in which an oracle that is not authorized ends
\* startup.
StartVerifyFatal(answer) ==
    /\ server.pc = "verifying"
    /\ answer # 0 => CONTRACTS(server.env).creditRegistry # ""
    /\ LET isAuthorized == /\ answer # 0
                            /\ toLowerCase(answer) = toLowerCase(WalletAddressChar)
       IN  server' = [server EXCEPT
                        !.authorizedOracle = <<answer>>,
                        !.isAuthorized = isAuthorized,
                        !.error = IF isAuthorized THEN @
                                  ELSE [message |-> "oracle not authorized", keys |-> <<>>],
                        !.pc = IF isAuthorized THEN "balance" ELSE "exited"]
    /\ UNCHANGED <<harness, flow, registry, submitted, batch>>

\* oracle.ts 139-156 and index.ts 193-197: verifyOracleAuthorization
\* compares the two addresses in lower case and returns false when the
\* query throws; startServer warns when it returned false and goes on.
StartVerify(answer) ==
    /\ server.pc = "verifying"
    /\ answer # 0 => CONTRACTS(server.env).creditRegistry # ""
    /\ LET isAuthorized == /\ answer # 0
                            /\ toLowerCase(answer) = toLowerCase(WalletAddressChar)
       IN  server' = [server EXCEPT
                        !.authorizedOracle = <<answer>>,
                        !.isAuthorized = isAuthorized,
                        !.warnings = IF isAuthorized THEN @ ELSE @ \cup {"not authorized"},
                        !.pc = "balance"]
    /\ UNCHANGED <<harness, flow, registry, submitted, batch>>

\* index.ts 202: the balance below which startServer warns, in units of
\* 0.001 ETH (0.01 ETH).
lowBalance == 10

\* What provider.getBalance answers, in units of 0.001 ETH; -1: it throws.
BalanceAnswers == {0 - 1, 0, lowBalance - 1, lowBalance, 500}

\* Variant of StartBalance in which getOracleBalance catches the error of
\* the query and returns "0".
StartBalanceCaught(answer) ==
    /\ server.pc = "balance"
    /\ server' = [server EXCEPT
                    !.balance = <<answer>>,
                    !.warnings = IF answer < lowBalance THEN @ \cup {"low balance"} ELSE @,
                    !.pc = "listening"]
    /\ UNCHANGED <<harness, flow, registry, submitted, batch>>

\* index.ts 199-219 and oracle.ts 133-136: getOracleBalance has no catch
\* block, so its error ends startup (index.ts 221-224); otherwise a low
\* balance is warned about and app.listen starts the server.
StartBalance(answer) ==
    /\ server.pc = "balance"
    /\ server' = IF answer < 0
                   THEN [server EXCEPT
                           !.balance = <<answer>>,
                           !.error = [message |-> "balance query failed", keys |-> <<>>],
                           !.pc = "exited"]
                   ELSE [server EXCEPT
                           !.balance = <<answer>>,
                           !.warnings = IF answer < lowBalance
                                          THEN @ \cup {"low balance"} ELSE @,
                           !.pc = "listening"]
    /\ UNCHANGED <<harness, flow, registry, submitted, batch>>

StartupInit ==
    /\ activity = NoActivity
    /\ score = 0
    /\ calcPc = "input"
    /\ prev = <<NoActivity, 0, "none">>
    /\ flow = [r \in Flows |-> IdleFlow]
    /\ registry = [a \in ValidAddresses |-> NoRegistryEntry]
    /\ submitted = {}
    /\ batch = NoBatch
    /\ \E env \in Environments : server = ServerStart(env)

StartupNext ==
    \/ StartValidateConfig
    \/ StartConstruct
    \/ \E answer \in OracleAnswers : StartVerify(answer)
    \/ \E answer \in BalanceAnswers : StartBalance(answer)
    \/ \E r \in Flows, a \in Addresses : ExistsRoute(r, a)
    \/ \E r \in Flows, ok \in BOOLEAN : ExistsReturn(r, ok)

SpecStartup == StartupInit /\ [][StartupNext]_vars

Next ==
    \/ \E r \in Flows, a \in Addresses : ScoreRoute(r, a)
    \/ \E r \in Flows, ok \in BOOLEAN : HasScoreReturn(r, ok)
    \/ \E r \in Flows, a \in Addresses \cup {EmptyAddress} : TriggerRoute(r, a)
    \/ \E r \in Flows : Validate(r)
    \/ \E r \in Flows : Fetch(r)
    \/ \E r \in Flows : Score(r)
    \/ \E r \in Flows, ok \in BOOLEAN : Submit(r, ok)
    \/ \E r \in Flows, ok \in BOOLEAN : Confirm(r, ok)
    \/ \E r \in Flows : Respond(r)

Spec == Init /\ [][Next]_vars

----------------------------------------------------------------------------
(* Properties of calculateCreditScore, checked under SpecScore *)

Range(s) == { s[i] : i \in DOMAIN s }

\* C1: for every snapshot, the value calculateCreditScore returns is an
\* integer s with 300 <= s <= 850.
C1_ScoreInRange == calcPc = "scored" => score \in 300..850

\* A snapshot whose bonuses add up to more than 850 has been scored.
C1_Witness == calcPc = "scored" /\ RawScore(activity) > 850 /\ score = 850

\* The part of the reference formula that does not depend on the tier.
ReferenceFactors(a) ==
    500 + (IF a.hasLendingActivity THEN 100 ELSE 0)
        + (IF a.neverLiquidated THEN 50 ELSE 0)
        + (IF a.accountAgeMonths >= 6 THEN 100 ELSE 0)
        + (IF a.protocolCount >= 2 THEN 50 ELSE 0)

ReferenceTierBonus(h) ==
    CASE h = "strong" -> 150
      [] h = "good" -> 105
      [] h = "average" -> 60
      [] OTHER -> 0

Reference(a) ==
    Max(300, Min(850, ReferenceFactors(a) + ReferenceTierBonus(a.repaymentHistory)))

\* C2: for every snapshot whose repaymentHistory is one of none, poor,
\* average, good, strong, calculateCreditScore equals the reference formula
\* (tier bonus 150 for strong, 105 for good, 60 for average, 0 otherwise).
C2_MatchesReference ==
    calcPc = "scored" /\ activity.repaymentHistory \in RepaymentTiers
        => score = Reference(activity)

\* C4: raising one positive factor, all other fields fixed, never yields a
\* lower score than the snapshot it was raised from.
C4_Monotone == calcPc = "scored" /\ prev[3] # "none" => score >= prev[2]

\* What repaymentHistory contributed to the score before clamping.
RepaymentContribution(a) == RawScore(a) - ReferenceFactors(a)

\* C5: in one evaluation the amount repaymentHistory contributes before
\* clamping is exactly one value of {0, 60, 105, 150}, never the sum of two
\* tier bonuses, and the score is the clamp of the other factors plus it.
C5_OneTierBonus ==
    calcPc = "scored" =>
        /\ RepaymentContribution(activity) \in {0, 60, 105, 150}
        /\ score = Max(300, Min(850, ReferenceFactors(activity)
                                       + RepaymentContribution(activity)))

\* A snapshot of tier good has been scored and the tier contributed 105.
C5_Witness ==
    /\ calcPc = "scored"
    /\ activity.repaymentHistory = "good"
    /\ RepaymentContribution(activity) = 105
    /\ score = ReferenceFactors(activity) + 105

\* C6: a repaymentHistory outside the enum adds a bonus of zero: the score
\* equals that of the same snapshot with repaymentHistory = none.
C6_UnrecognizedTierAddsZero ==
    calcPc = "scored" /\ activity.repaymentHistory \notin RepaymentTiers
        => score = calculateCreditScore([activity EXCEPT !.repaymentHistory = "none"])

----------------------------------------------------------------------------
(* Properties of the update flow, checked under Spec *)

\* The flow's call of updateCreditScore has evaluated calculateCreditScore.
Scored(r) == "score" \in Range(flow[r].steps)

\* The five scored fields of a snapshot.
Facts(a) ==
    <<a.hasLendingActivity, a.neverLiquidated, a.accountAgeMonths, a.protocolCount,
      a.repaymentHistory>>

\* The four concrete snapshots and the scores stated for them.
StatedScore(a) ==
    CASE Facts(a) = <<TRUE, TRUE, 12, 3, "strong">> -> 850
      [] Facts(a) = <<TRUE, TRUE, 8, 2, "good">> -> 850
      [] Facts(a) = <<TRUE, TRUE, 4, 1, "average">> -> 710
      [] Facts(a) = <<FALSE, TRUE, 1, 0, "none">> -> 550
      [] OTHER -> 0

\* C3: the activity provider produces the four concrete snapshots, and an
\* update that completes submits and returns the score stated for its
\* snapshot (850, 850, 710, 550).
C3_ConcreteScores ==
    \A r \in Flows :
        flow[r].pc = "Done" =>
            /\ StatedScore(flow[r].activity) # 0
            /\ flow[r].result.score = StatedScore(flow[r].activity)
            /\ \E t \in submitted :
                 t.hash = flow[r].tx /\ t.plaintextScore = StatedScore(flow[r].activity)

InvalidUpdate(r) == "validate" \in Range(flow[r].steps) /\ ~isAddress(flow[r].addr)

\* C8: an update called with an address that fails validation ends in
\* Failed with the error thrown to the caller, and nothing else ran in it:
\* no scan, no updateScore transaction, no confirmation wait.
C8_InvalidAddressFailsFirst ==
    \A r \in Flows :
        InvalidUpdate(r) =>
            /\ flow[r].pc \in {"Failed", "Responded"}
            /\ flow[r].error = "Invalid Ethereum address"
            /\ flow[r].steps = <<"validate">>
            /\ flow[r].activity = NoActivity
            /\ "updateScore" \notin Range(flow[r].calls)
            /\ "wait" \notin Range(flow[r].calls)
            /\ \A t \in submitted : t.hash # r
            /\ flow[r].result = NoResult

\* An update with an invalid address has just failed.
C8_Witness ==
    \E r \in Flows :
        InvalidUpdate(r) /\ flow[r].pc = "Failed" /\ flow[r].steps = <<"validate">>

\* C9: while POST /api/score/:address handles an address that fails
\* validation, no registry operation is invoked (neither hasScore nor
\* updateScore), and the request ends with the invalid-address error.
C9_NoRegistryCallOnInvalidAddress ==
    \A r \in Flows :
        flow[r].kind = "score" /\ ~isAddress(flow[r].addr) =>
            /\ flow[r].calls = <<>>
            /\ flow[r].pc = "Responded" => flow[r].response.error = "Invalid Ethereum address"

\* C10: an update that reached Done ran validate, fetch, score, submit and
\* confirm once each in that order; its result carries the score computed
\* from the fetched snapshot, which is the score sent to updateScore for the
\* same address, and a result exists only once the transaction is mined.
C10_DoneAfterAllSteps ==
    \A r \in Flows :
        /\ flow[r].pc = "Done" =>
             /\ flow[r].steps = <<"validate", "fetch", "score", "submit", "confirm">>
             /\ flow[r].activity = scanWalletActivity(flow[r].addr)
             /\ flow[r].result.score = calculateCreditScore(flow[r].activity)
             /\ \E t \in submitted :
                  /\ t.hash = flow[r].result.txHash
                  /\ t.user = flow[r].addr
                  /\ t.plaintextScore = flow[r].result.score
        /\ flow[r].result # NoResult =>
             /\ flow[r].pc \in {"Done", "Responded"}
             /\ \E t \in submitted : t.hash = flow[r].result.txHash /\ t.mined

\* An update of an address of the third profile is Done with its result.
C10_Witness ==
    \E r \in Flows :
        /\ flow[r].pc = "Done"
        /\ flow[r].result.score = 710
        /\ flow[r].result.txHash = r

\* The statements of updateCreditScore, in program order.
UpdateSteps == <<"validate", "fetch", "score", "submit", "confirm">>

IsPrefix(s, t) == Len(s) <= Len(t) /\ \A i \in 1..Len(s) : s[i] = t[i]

\* C11: nothing is retried and a failure ends the update: the statements run
\* at most once each, in program order; after a failed submit no
\* confirmation wait is started and no transaction exists; after any failure
\* the flow stays failed, no result is returned and the caller gets the error.
C11_FailedIsFinal ==
    \A r \in Flows :
        /\ IsPrefix(flow[r].steps, UpdateSteps)
        /\ Len(SelectSeq(flow[r].calls, LAMBDA c : c = "updateScore")) <= 1
        /\ Len(SelectSeq(flow[r].calls, LAMBDA c : c = "wait")) <= 1
        /\ flow[r].error # "" =>
             /\ flow[r].pc \in {"Failed", "Responded"}
             /\ flow[r].result = NoResult
             /\ flow[r].error = "Invalid Ethereum address" => flow[r].steps = <<"validate">>
             /\ flow[r].error = "submission failed" =>
                  /\ flow[r].steps = <<"validate", "fetch", "score", "submit">>
                  /\ "wait" \notin Range(flow[r].calls)
                  /\ \A t \in submitted : t.hash # r
             /\ flow[r].error = "transaction failed" =>
                  /\ flow[r].steps = UpdateSteps
                  /\ \E t \in submitted : t.hash = r /\ ~t.mined
             /\ flow[r].pc = "Responded" =>
                  /\ ~flow[r].response.success
                  /\ flow[r].response.error = flow[r].error

\* One update failed at submit and another at the confirmation wait.
C11_Witness ==
    \E r1, r2 \in Flows :
        /\ flow[r1].pc = "Failed" /\ flow[r1].error = "submission failed"
        /\ flow[r2].pc = "Failed" /\ flow[r2].error = "transaction failed"

\* C16: concurrent updates on the shared oracle are not serialized: a flow
\* that is ready to submit can always submit, whatever transactions of
\* other flows are still unconfirmed.
C16_SubmitNeverHeldBack ==
    \A r \in Flows : flow[r].pc = "Submitting" => ENABLED Submit(r, TRUE)

\* Two flows have each sent a transaction and neither is confirmed.
C16_Witness ==
    \E r1, r2 \in Flows :
        /\ r1 # r2
        /\ flow[r1].pc = "Confirming" /\ flow[r2].pc = "Confirming"
        /\ \E t1, t2 \in submitted :
             t1.hash = flow[r1].tx /\ t2.hash = flow[r2].tx /\ ~t1.mined /\ ~t2.mined

\* C18: a request that fails with the invalid-address error is answered as
\* a client error (status 4xx), and that answer differs from the answer to a
\* submission or transaction failure.
C18_InvalidAddressIsClientError ==
    \A r \in Flows :
        flow[r].pc = "Responded" /\ flow[r].error = "Invalid Ethereum address" =>
            /\ flow[r].response.status \in 400..499
            /\ \A q \in Flows :
                 flow[q].pc = "Responded"
                 /\ flow[q].error \in {"submission failed", "transaction failed"}
                     => flow[q].response.status # flow[r].response.status

\* C19: the pre-check never blocks: every score request that got the
\* pre-check's answer, true or false, runs the update, its response is the
\* update's outcome, and a completed update leaves its score in the registry.
C19_RescoringNeverBlocked ==
    \A r \in Flows :
        flow[r].kind = "score" =>
            /\ flow[r].pc \notin {"Idle", "HasScore", "Validating"}
                 => "validate" \in Range(flow[r].steps)
            /\ flow[r].pc = "Responded" =>
                 flow[r].response.status = IF flow[r].result # NoResult THEN 200 ELSE 500
            /\ flow[r].pc = "Done" =>
                 registry[flow[r].addr] = [has |-> TRUE, score |-> flow[r].result.score]

\* A score request whose pre-check answered true has completed its update.
C19_Witness ==
    \E r \in Flows :
        /\ flow[r].kind = "score"
        /\ flow[r].exists
        /\ flow[r].pc = "Done"
        /\ registry[flow[r].addr] = [has |-> TRUE, score |-> flow[r].result.score]


\* C17: hasScore never hands an error to its caller: when the registry query
\* fails it returns false, when the query succeeds it returns the registry's
\* answer, and in neither case is anything submitted or the registry changed.
C17_HasScoreNeverThrows ==
    /\ submitted = {}
    /\ \A a \in ValidAddresses :
          registry[a] \in { NoRegistryEntry,
                            [has |-> TRUE,
                             score |-> calculateCreditScore(scanWalletActivity(a))] }
    /\ \A r \in Flows :
          (flow[r].kind = "exists" /\ flow[r].pc = "Responded") =>
            /\ flow[r].error = ""
            /\ flow[r].response.status = 200
            /\ flow[r].response.hasScore = flow[r].exists
            /\ flow[r].exists = IF flow[r].queryFailed THEN FALSE
                                 ELSE RegistryHasScore(flow[r].addr)

C17_Witness ==
    \E r1, r2 \in Flows :
        /\ flow[r1].kind = "exists" /\ flow[r1].pc = "Responded"
        /\ flow[r1].queryFailed /\ RegistryHasScore(flow[r1].addr)
        /\ ~flow[r1].response.hasScore
        /\ flow[r2].kind = "exists" /\ flow[r2].pc = "Responded"
        /\ ~flow[r2].queryFailed /\ flow[r2].response.hasScore

\* C15: a request to the batch URL carrying more than ten addresses is
\* rejected before any Coordinator operation starts: no oracle call is made
\* for it and it is answered with the batch handler's 400.
C15_OversizedBatchRejectedFirst ==
    \A r \in Flows :
        (flow[r].url = "/api/score/batch" /\ flow[r].count > maxBatch) =>
            /\ flow[r].calls = <<>>
            /\ flow[r].steps = <<>>
            /\ flow[r].pc = "Responded"
            /\ flow[r].response.status = 400

\* C12: batchUpdateScores starts the update of every list position exactly
\* once and in input order, whichever items fail and at whichever step; a
\* failed item neither skips a later one nor makes the batch fail.
C12_EveryItemStartedInOrder ==
    /\ batch.pc \in {"Loop", "Update", "Delay", "Complete"}
    /\ Len(batch.started) = batch.idx
    /\ batch.idx <= Len(batch.addresses)
    /\ \A i \in 1..batch.idx :
          /\ batch.started[i].pos = i
          /\ batch.started[i].addr = batch.addresses[i]
          /\ flow[i].kind = "batch"
          /\ flow[i].addr = batch.addresses[i]
          /\ IsPrefix(flow[i].steps, UpdateSteps)
    /\ \A r \in Flows : r > batch.idx => flow[r] = IdleFlow
    /\ \A k \in 1..Len(batch.caught) :
          /\ flow[batch.caught[k]].pc = "Failed"
          /\ \A j \in 1..(k - 1) : batch.caught[j] < batch.caught[k]
    /\ batch.pc = "Complete" =>
          /\ batch.idx = Len(batch.addresses)
          /\ \A i \in 1..batch.idx :
                /\ flow[i].pc \in {"Done", "Failed"}
                /\ flow[i].pc = "Failed" <=> \E k \in 1..Len(batch.caught) : batch.caught[k] = i

C12_Witness ==
    /\ batch.pc = "Complete"
    /\ Len(batch.addresses) >= 2
    /\ flow[1].pc = "Failed"
    /\ flow[1].error \in {"Invalid Ethereum address", "submission failed", "transaction failed"}
    /\ flow[2].pc = "Done"

C14_DelayBetweenConsecutiveItems ==
    \A i \in 1..(Len(batch.started) - 1) :
        batch.started[i + 1].at - batch.started[i].at >= delayMs

SameAddressIgnoringCase(answer) ==
    answer # 0 /\ toLowerCase(answer) = toLowerCase(WalletAddressChar)

\* C21: at startup an authorization mismatch and a balance below the
\* threshold are not fatal, alone or together: each leaves a warning, startup
\* goes on and can reach the listening state, and the process exits only for
\* a configuration error, an unusable key or a failed balance query.  An
\* address equal to the wallet's up to letter case counts as authorized.
C21_WarningsAreNotFatal ==
    /\ server.authorizedOracle # <<>> =>
          /\ server.isAuthorized = SameAddressIgnoringCase(server.authorizedOracle[1])
          /\ ("not authorized" \in server.warnings) <=> ~server.isAuthorized
          /\ server.pc \in {"balance", "listening", "exited"}
          /\ server.pc = "exited" => server.error.message = "balance query failed"
    /\ server.pc = "balance" =>
          \A answer \in BalanceAnswers : answer >= 0 => ENABLED StartBalance(answer)
    /\ (server.balance # <<>> /\ server.balance[1] >= 0) =>
          /\ server.pc = "listening"
          /\ ("low balance" \in server.warnings) <=> server.balance[1] < lowBalance
    /\ server.pc = "exited" =>
          server.error.message \in {"Missing required environment variables",
                                    "invalid private key", "balance query failed"}

C21_Witness ==
    /\ server.pc = "listening"
    /\ server.authorizedOracle = <<48>>
    /\ server.balance = <<lowBalance - 1>>
    /\ server.warnings = {"not authorized", "low balance"}

\* C23: the two startup queries fail differently.  When oracle() throws,
\* verifyOracleAuthorization returns false and startup goes on as for a
\* mismatch, so the server can still listen; when the balance query throws,
\* startup is aborted and the server never listens or serves a request.
C23_StartupQueriesFailDifferently ==
    /\ server.authorizedOracle = <<0>> =>
          /\ ~server.isAuthorized
          /\ "not authorized" \in server.warnings
          /\ server.pc = "balance" => ENABLED StartBalance(lowBalance)
          /\ server.pc = "exited" => server.balance = <<0 - 1>>
    /\ (server.balance # <<>> /\ server.balance[1] < 0) =>
          /\ server.pc = "exited"
          /\ server.error.message = "balance query failed"
          /\ \A r \in Flows : flow[r] = IdleFlow

C23_Witness ==
    /\ server.pc = "exited"
    /\ server.authorizedOracle = <<0>>
    /\ server.balance = <<0 - 1>>
    /\ "not authorized" \in server.warnings

\* The loop of the batch is waiting for the update of its current item.
BatchAwaitingItem ==
    batch.pc = "Update" /\ flow[batch.idx].pc \notin {"Done", "Failed"}

\* C22: when every network call and confirmation wait returns or fails, the
\* batch eventually reaches its completed state after exactly n item
\* attempts, whatever the pattern of successes and failures; and while the
\* update of an item has not returned (a confirmation wait that never
\* resolves) the batch neither completes nor starts a later item.
C22_BatchRunsToCompletion ==
    /\ <>(/\ batch.pc = "Complete"
           /\ batch.idx = Len(batch.addresses)
           /\ Len(batch.started) = Len(batch.addresses))
    /\ [](BatchAwaitingItem =>
            /\ ~ENABLED BatchStartItem
            /\ ~ENABLED BatchComplete
            /\ ~ENABLED BatchCatch
            /\ ~ENABLED BatchAfterUpdate)
    /\ [](batch.pc = "Complete" => Len(batch.started) = Len(batch.addresses))

C22_Witness ==
    /\ batch.pc = "Complete"
    /\ Len(batch.addresses) = 2
    /\ Len(batch.started) = 2
    /\ flow[1].pc = "Done"
    /\ flow[2].pc = "Failed"
    /\ flow[2].error = "transaction failed"
====
